---- MODULE Spec2Model ----
(***************************************************************************)
(* UltraVectorDB: the HNSW graph index (src/src/HNSWGraph.ts) and the      *)
(* retrieval orchestrator (src/src/core/UltraVectorDB.ts) as one state     *)
(* machine.  One UltraVectorDB object with its HNSWGraph; every public     *)
(* method is one action that runs the whole method body.                   *)
(*                                                                         *)
(* Numbers.  Vector components are small integers and every score is a     *)
(* fixed-point number: a similarity s of the code is the integer s*Scale.  *)
(* The sample vectors have integer norms that divide Scale, so every       *)
(* cosine, distance and mean below is exact.  A text is the sequence of    *)
(* its characters.                                                         *)
(***************************************************************************)
EXTENDS Integers, Sequences, FiniteSets, TLC

VARIABLES
  dataStore,     \* UltraVectorDB.dataStore: the Map as its entries in insertion order
  graph,         \* HNSWGraph.graph: id -> node
  maxLevel,      \* HNSWGraph.maxLevel
  entryPointId,  \* HNSWGraph.entryPointId (NULL for null)
  ret,           \* the settled result of the last call, until the caller takes it
  adds,          \* addChunk calls made on the current index (bounds the runs)
  clears         \* history: clear() calls made since the last addChunk

vars == <<dataStore, graph, maxLevel, entryPointId, ret, adds, clears>>

(***************************************************************************)
(* Bounds of the model.                                                    *)
(***************************************************************************)
\* getRandomLevel() draws floor(-ln(U) * L_f), unbounded; the model draws 0..MaxLevel
MaxLevel == 1
\* at most MaxAdds addChunk calls are made between two clear() calls
MaxAdds == 3
\* at most MaxClears clear() calls are made in a row
MaxClears == 2
\* HNSWGraph.search is called with ef in 0..MaxEf
MaxEf == 3
\* ultraSearch is called with limit in 1..MaxLimit
MaxLimit == 2
\* the constructor arguments the model instantiates the database with
M == 1
efConstruction == 2
\* the width of a nano word in bits, for the code's 32
WordBits == 3
\* the length of the long query token: from 63 characters on every component
\* sin((length + i) * 0.05), i in 0..31, of its query embedding is negative
LongTokenLen == 63
\* at most MaxPending calls are issued before their promises are awaited
MaxPending == 2
\* iterations of searchLayer's while loop after which a call counts as not
\* terminating (more than a graph of the model has nodes)
MaxIterations == 4

\* chunk ids the callers use
Ids == {"a", "b", "c"}
\* contents given to addChunk, as character sequences: " ", "ab", "a b"
Contents == {<<" ">>, <<"a", "b">>, <<"a", " ", "b">>}
\* a query of one long token, "aaa...a"
LongToken == [i \in 1..LongTokenLen |-> "a"]
\* queries given to ultraSearch: the contents, "" and the long token
Texts == Contents \cup {<< >>, LongToken}
\* query vectors given to HNSWGraph.search directly (one of zero norm)
QueryVectors == {<<3, 0>>, <<0, 0>>}

NULL == "null"
Idle == [op |-> "idle"]

\* one unit of similarity in fixed point
Scale == 60 * 60
\* JavaScript's Infinity: larger than every distance (distances are in 0..2*Scale)
Infinity == 3 * Scale

(***************************************************************************)
(* Small helpers for sequences and maps.                                   *)
(***************************************************************************)
Range(s) == {s[i] : i \in 1..Len(s)}
Min(a, b) == IF a <= b THEN a ELSE b
Take(s, n) == SubSeq(s, 1, Min(n, Len(s)))
\* Map.set on a function: add or replace the key
Put(f, k, v) == [x \in DOMAIN f \cup {k} |-> IF x = k THEN v ELSE f[x]]
\* Set.add on an insertion-ordered Set
SetAdd(s, x) == IF x \in Range(s) THEN s ELSE Append(s, x)

(***************************************************************************)
(* cosineSimilarity (src/unnamed/part_002).                                *)
(***************************************************************************)
RECURSIVE DotPrefix(_, _, _)
DotPrefix(a, b, n) == IF n = 0 THEN 0 ELSE DotPrefix(a, b, n - 1) + a[n] * b[n]

\* Math.sqrt on the perfect squares the sample vectors produce
Sqrt(n) == CHOOSE r \in 0..n : r * r <= n /\ (r + 1) * (r + 1) > n

cosineSimilarity(a, b) ==
  LET len == Min(Len(a), Len(b))
      dot == DotPrefix(a, b, len)
      normA == DotPrefix(a, a, len)
      normB == DotPrefix(b, b, len)
  IN IF normA = 0 \/ normB = 0 THEN 0
     ELSE (dot * Scale) \div (Sqrt(normA) * Sqrt(normB))

\* 1 - cosineSimilarity(query, vector), the distance of searchLayer
distanceTo(query, vector) == Scale - cosineSimilarity(query, vector)

(***************************************************************************)
(* Array.prototype.sort with a comparator on one numeric key: stable.      *)
(***************************************************************************)
RECURSIVE InsertByDistance(_, _)
InsertByDistance(sorted, x) ==
  IF sorted = << >> THEN <<x>>
  ELSE IF x.distance < sorted[Len(sorted)].distance
       THEN Append(InsertByDistance(SubSeq(sorted, 1, Len(sorted) - 1), x),
                   sorted[Len(sorted)])
       ELSE Append(sorted, x)

RECURSIVE SortByDistancePrefix(_, _)
SortByDistancePrefix(s, n) ==
  IF n = 0 THEN << >> ELSE InsertByDistance(SortByDistancePrefix(s, n - 1), s[n])

\* sort((a, b) => a.distance - b.distance)
SortByDistance(s) == SortByDistancePrefix(s, Len(s))

idsOf(s) == [i \in 1..Len(s) |-> s[i].id]

(***************************************************************************)
(* HNSWGraph.searchLayer (src/src/HNSWGraph.ts 103-152).  A result is      *)
(* [threw, ids]: threw is TRUE when the method raises a TypeError          *)
(* (candidates[0] is undefined at line 123-124 once the list was cut to    *)
(* length 0).  iterations counts the rounds of the while loop, visited is  *)
(* the visited set at the end, and diverged is TRUE when the loop was      *)
(* still running after MaxIterations rounds.                               *)
(***************************************************************************)
Returned(ids) ==
  [threw |-> FALSE, ids |-> ids, iterations |-> 0, visited |-> {}, diverged |-> FALSE]
Thrown ==
  [threw |-> TRUE, ids |-> << >>, iterations |-> 0, visited |-> {}, diverged |-> FALSE]
Diverged ==
  [threw |-> FALSE, ids |-> << >>, iterations |-> MaxIterations, visited |-> {},
   diverged |-> TRUE]

\* the bug of not recording the nodes the loop has seen
markVisitedNever(visited, neighborId) == visited

\* line 131: visited.add(neighborId)
markVisited(visited, neighborId) == visited \cup {neighborId}

\* the bug of starting with no visited node: the entry can be pushed again
initialVisitedNone(entry) == {}

\* line 112: const visited = new Set<string>([entryPointId])
initialVisited(entry) == {entry}

\* the bug of a cut without the sort before it
truncateCandidatesUnsorted(candidates, ef) ==
  IF Len(candidates) > ef THEN SubSeq(candidates, 1, ef) ELSE candidates

\* lines 139-142: cut the list to the ef nearest once it holds more than ef
truncateCandidates(candidates, ef) ==
  IF Len(candidates) > ef THEN SubSeq(SortByDistance(candidates), 1, ef)
  ELSE candidates

\* lines 148-151: sort, slice(0, ef), map to ids
layerResult(candidates, ef) == idsOf(Take(SortByDistance(candidates), ef))

\* the bug of expanding the layer-0 set at every layer
neighborsAtBottom(node, layer) ==
  IF 0 \in DOMAIN node.neighbors THEN node.neighbors[0] ELSE << >>

\* line 127: currentNode.neighbors.get(layer) || new Set()
neighborsAt(node, layer) ==
  IF layer \in DOMAIN node.neighbors THEN node.neighbors[layer] ELSE << >>

\* the bug of pushing a neighbor that is not in the node mapping
danglingNeighborPushed(candidates, neighborId) ==
  Append(candidates, [id |-> neighborId, distance |-> Infinity])

\* lines 133-134: if (!neighborNode) continue; the candidates stay as they are
danglingNeighbor(candidates, neighborId) == candidates

\* lines 129-145: the for-of loop over the current node's neighbors;
\* st = [visited, candidates, changed]
RECURSIVE expandNeighbors(_, _, _, _, _, _)
expandNeighbors(g, query, ef, nbrs, i, st) ==
  IF i > Len(nbrs) THEN st
  ELSE LET neighborId == nbrs[i] IN
    IF neighborId \in st.visited THEN expandNeighbors(g, query, ef, nbrs, i + 1, st)
    ELSE LET seen == markVisited(st.visited, neighborId) IN
      IF neighborId \notin DOMAIN g
      THEN expandNeighbors(g, query, ef, nbrs, i + 1,
             [st EXCEPT !.visited = seen,
                        !.candidates = danglingNeighbor(@, neighborId)])
      ELSE LET d == distanceTo(query, g[neighborId].vector)
               pushed == Append(st.candidates, [id |-> neighborId, distance |-> d])
           IN expandNeighbors(g, query, ef, nbrs, i + 1,
                [visited |-> seen,
                 candidates |-> truncateCandidates(pushed, ef),
                 changed |-> TRUE])

\* lines 118-146: the while (changed) loop, n rounds of it being done
RECURSIVE searchLoop(_, _, _, _, _, _, _)
searchLoop(g, query, ef, layer, visited, candidates, n) ==
  LET sorted == SortByDistance(candidates) IN
  IF n >= MaxIterations THEN Diverged
  ELSE IF sorted = << >>
  THEN [Thrown EXCEPT !.iterations = n + 1, !.visited = visited]
  ELSE IF sorted[1].id \notin DOMAIN g
  THEN [Returned(layerResult(sorted, ef)) EXCEPT !.iterations = n + 1, !.visited = visited]
  ELSE LET st == expandNeighbors(g, query, ef, neighborsAt(g[sorted[1].id], layer), 1,
                   [visited |-> visited, candidates |-> sorted, changed |-> FALSE])
       IN IF st.changed
          THEN searchLoop(g, query, ef, layer, st.visited, st.candidates, n + 1)
          ELSE [Returned(layerResult(st.candidates, ef))
                  EXCEPT !.iterations = n + 1, !.visited = st.visited]

searchLayer(g, query, ef, layer, entry) ==
  IF entry \notin DOMAIN g THEN Returned(<< >>)
  ELSE searchLoop(g, query, ef, layer, initialVisited(entry),
         <<[id |-> entry, distance |-> distanceTo(query, g[entry].vector)]>>, 0)

\* lines 57-60 and 94-97: the top-down descent with beam width 1, from layer l
\* down to layer stop + 1
RECURSIVE descend(_, _, _, _, _)
descend(g, query, l, stop, currentEntryId) ==
  IF l <= stop THEN currentEntryId
  ELSE LET candidates == searchLayer(g, query, 1, l, currentEntryId).ids
       IN descend(g, query, l - 1, stop,
            IF Len(candidates) > 0 THEN candidates[1] ELSE currentEntryId)

(***************************************************************************)
(* HNSWGraph.search (88-101).                                              *)
(***************************************************************************)
search(g, maxL, entry, queryVector, ef, targetLevel) ==
  IF entry = NULL \/ Cardinality(DOMAIN g) = 0 THEN Returned(<< >>)
  ELSE searchLayer(g, queryVector, ef, targetLevel,
         descend(g, queryVector, maxL, targetLevel, entry))

\* the bug of searchLayer creating the missing layer set of the node it starts
\* from (neighbors.set(layer, new Set()) for the fallback of line 127)
searchEffectMaterialized(h, queryVector, ef, targetLevel) ==
  IF h.entryPointId \in DOMAIN h.graph
       /\ targetLevel \notin DOMAIN h.graph[h.entryPointId].neighbors
  THEN [h EXCEPT !.graph[h.entryPointId].neighbors = Put(@, targetLevel, << >>)]
  ELSE h

\* the graph object [graph, maxLevel, entryPointId] after search: lines 88-152
\* assign no field and call no mutator of the graph or of a node
searchEffect(h, queryVector, ef, targetLevel) == h
(***************************************************************************)
(* HNSWGraph.insert (32-86) with selectNeighbors (154-171) and             *)
(* trimNeighbors (173-190).  A node is [id, vector, level, neighbors], its *)
(* neighbors a function from the layer keys to insertion-ordered id lists. *)
(***************************************************************************)
\* scored entries of selectNeighbors and trimNeighbors: Infinity for an id
\* that is not in the graph
scoreAgainst(g, vector, ids) ==
  [i \in 1..Len(ids) |->
     [id |-> ids[i],
      distance |-> IF ids[i] \in DOMAIN g
                   THEN distanceTo(vector, g[ids[i]].vector) ELSE Infinity]]

selectNeighbors(g, candidates, m, newVector) ==
  IF Len(candidates) <= m THEN candidates
  ELSE idsOf(SubSeq(SortByDistance(scoreAgainst(g, newVector, candidates)), 1, m))

\* the bug of never trimming
trimNeighborsOff(g, node, layer, m) == node

\* the node after trimNeighbors(node, layer, m)
trimNeighbors(g, node, layer, m) ==
  IF layer \notin DOMAIN node.neighbors THEN node
  ELSE IF Len(node.neighbors[layer]) <= m THEN node
  ELSE [node EXCEPT !.neighbors[layer] =
          idsOf(SubSeq(SortByDistance(scoreAgainst(g, node.vector, @)), 1, m))]

\* lines 34-38: the new node with an empty neighbor set for each layer 0..level
makeNode(id, vector, level) ==
  [id |-> id, vector |-> vector, level |-> level,
   neighbors |-> [l \in 0..level |-> << >>]]

\* the bug of linking in one direction only
linkBackNever(g, neighborId, id, l) == g

\* lines 70-77: link the neighbor back to the new id and trim it
linkBack(g, neighborId, id, l) ==
  IF neighborId \notin DOMAIN g THEN g
  ELSE LET node == g[neighborId]
           withLayer == IF l \in DOMAIN node.neighbors THEN node
                        ELSE [node EXCEPT !.neighbors = Put(@, l, << >>)]
           added == [withLayer EXCEPT !.neighbors[l] = SetAdd(@, id)]
       IN [g EXCEPT ![neighborId] = trimNeighbors(g, added, l, M)]

\* lines 67-78: the loop over the selected neighbors; st = [graph, newNode]
RECURSIVE linkNeighbors(_, _, _, _)
linkNeighbors(st, l, selected, i) ==
  IF i > Len(selected) THEN st
  ELSE linkNeighbors(
         [graph |-> linkBack(st.graph, selected[i], st.newNode.id, l),
          newNode |-> [st.newNode EXCEPT !.neighbors[l] = SetAdd(@, selected[i])]],
         l, selected, i + 1)

\* lines 63-83: the loop over the layers level..0; st = [graph, newNode]
RECURSIVE linkLayers(_, _, _)
linkLayers(st, l, currentEntryId) ==
  IF l < 0 THEN st
  ELSE LET candidates ==
             searchLayer(st.graph, st.newNode.vector, efConstruction, l, currentEntryId).ids
           selected == selectNeighbors(st.graph, candidates, M, st.newNode.vector)
       IN linkLayers(linkNeighbors(st, l, selected, 1), l - 1,
            IF Len(candidates) > 0 THEN candidates[1] ELSE currentEntryId)

\* the bug of never raising the maximum level
raisedMaxLevelNever(maxL, level) == maxL

\* the bug of moving the entry point on a tie of levels
raisedEntryPointOnTie(maxL, entry, id, level) == IF level >= maxL THEN id ELSE entry

\* lines 49-52: the entry point and the maximum level once the new level is known
raisedMaxLevel(maxL, level) == IF level > maxL THEN level ELSE maxL
raisedEntryPoint(maxL, entry, id, level) == IF level > maxL THEN id ELSE entry

\* the graph object [graph, maxLevel, entryPointId] after insert(id, vector),
\* level being the random level drawn at line 33
\* the bug of a graph.set(id, newNode) moved before the link loop
graphWhileLinkingCommitted(g, newNode) == Put(g, newNode.id, newNode)

\* the node mapping the link loop (63-83) reads: graph.set(id, newNode) is the
\* last statement (85), so the new node is not in it
graphWhileLinking(g, newNode) == g

insert(h, id, vector, level) ==
  LET newNode == makeNode(id, vector, level) IN
  IF Cardinality(DOMAIN h.graph) = 0 \/ h.entryPointId = NULL
  THEN [graph |-> Put(h.graph, id, newNode), entryPointId |-> id, maxLevel |-> level]
  ELSE LET maxL == raisedMaxLevel(h.maxLevel, level)
           entry == raisedEntryPoint(h.maxLevel, h.entryPointId, id, level)
           start == descend(h.graph, vector, maxL, level, entry)
           linked == linkLayers([graph |-> graphWhileLinking(h.graph, newNode),
                                 newNode |-> newNode], level, start)
       IN [graph |-> Put(linked.graph, id, linked.newNode),
           entryPointId |-> entry, maxLevel |-> maxL]
(***************************************************************************)
(* Texts: String.prototype.trim and split(/\s+/).filter(Boolean).          *)
(***************************************************************************)
isSpace(c) == c = " "

RECURSIVE trimStart(_)
trimStart(text) ==
  IF text # << >> /\ isSpace(text[1]) THEN trimStart(Tail(text)) ELSE text

RECURSIVE trimEnd(_)
trimEnd(text) ==
  IF text # << >> /\ isSpace(text[Len(text)])
  THEN trimEnd(SubSeq(text, 1, Len(text) - 1)) ELSE text

trim(text) == trimEnd(trimStart(text))

\* split(/\s+/).filter(Boolean): the maximal runs of non-space characters, in
\* order.  tokenStarts are the positions where a run begins, tokenEnd(text, i)
\* is where the run that begins at i ends.
tokenStarts(text) ==
  {i \in 1..Len(text) : ~isSpace(text[i]) /\ (i = 1 \/ isSpace(text[i - 1]))}
tokenEnd(text, i) ==
  CHOOSE j \in i..Len(text) :
    /\ \A k \in i..j : ~isSpace(text[k])
    /\ (j = Len(text) \/ isSpace(text[j + 1]))

splitTokens(text) ==
  [n \in 1..Cardinality(tokenStarts(text)) |->
     LET start == CHOOSE i \in tokenStarts(text) :
                    Cardinality({j \in tokenStarts(text) : j < i}) = n - 1
     IN SubSeq(text, start, tokenEnd(text, start))]

(***************************************************************************)
(* MatryoshkaGenerator (src/unnamed/part_001).  The generator is a         *)
(* deterministic function of text.length (the seed) and of the token       *)
(* lengths; its floating-point values are sampled by tables of integer     *)
(* vectors in units of 1/5 (so 0.5 is 2.5 units).  full has 3 dimensions   *)
(* for the code's 768, medium its first 2 for 256, nano the threshold bits *)
(* of the first 2 for 32, a token vector 2 for 32.                         *)
(***************************************************************************)
\* line 10: let x = seed || 123456789
seedOf(text) == IF Len(text) = 0 THEN 123456789 ELSE Len(text)

generateRoPEEmbedding(text) ==
  CASE seedOf(text) = 1 -> <<3, 4, 0>>
    [] seedOf(text) = 2 -> <<3, 0, 4>>
    [] seedOf(text) = 3 -> <<0, 3, 4>>
    [] OTHER -> <<4, 3, 0>>

\* lines 52-57: bit i of nano is set when full[i] > 0.5
RECURSIVE nanoBits(_, _)
nanoBits(full, n) ==
  IF n = 0 THEN 0
  ELSE nanoBits(full, n - 1) + (IF 2 * full[n] > 5 THEN 2 ^ (n - 1) ELSE 0)

\* lines 66-72: the embedding generateAll stores for a document token
docTokenEmbedding(token) ==
  CASE Len(token) = 1 -> <<3, 4>>
    [] Len(token) = 2 -> <<4, 3>>
    [] OTHER -> <<5, 0>>

generateAll(text) ==
  LET full == generateRoPEEmbedding(text)
      tokens == splitTokens(text)
  IN [matryoshka |-> [full |-> full,
                      medium |-> SubSeq(full, 1, 2),
                      small |-> SubSeq(full, 1, 1),
                      nano |-> nanoBits(full, 2)],
      colbert |-> [tokens |-> tokens,
                   embeddings |-> [i \in 1..Len(tokens) |-> docTokenEmbedding(tokens[i])],
                   importance |-> [i \in 1..Len(tokens) |-> Scale]]]

(***************************************************************************)
(* ColBERTEngine.score (src/src/core/UltraVectorDB.ts 15-52).              *)
(***************************************************************************)
\* lines 22-29: the embedding the scorer builds for a query token
makeQueryTokenEmbedding(token) ==
  CASE Len(token) = 1 -> <<4, 3>>
    [] Len(token) = 2 -> <<5, 0>>
    [] Len(token) >= 63 -> <<-4, -3>>
    [] OTHER -> <<0, 5>>

\* lines 39-45: the maximum over the document tokens, starting from 0
RECURSIVE maxSimUpTo(_, _, _)
maxSimUpTo(qEmb, doc, di) ==
  IF di = 0 THEN 0
  ELSE LET below == maxSimUpTo(qEmb, doc, di - 1)
           sim == (cosineSimilarity(qEmb, doc.embeddings[di]) * doc.importance[di]) \div Scale
       IN IF sim > below THEN sim ELSE below

RECURSIVE totalScoreUpTo(_, _, _)
totalScoreUpTo(queryTokens, doc, qi) ==
  IF qi = 0 THEN 0
  ELSE totalScoreUpTo(queryTokens, doc, qi - 1)
       + maxSimUpTo(makeQueryTokenEmbedding(queryTokens[qi]), doc, Len(doc.embeddings))

colbertScore(query, doc) ==
  IF Len(doc.tokens) = 0 \/ Len(doc.embeddings) = 0 THEN 0
  ELSE LET queryTokens == splitTokens(query) IN
       IF Len(queryTokens) = 0 THEN 0
       ELSE totalScoreUpTo(queryTokens, doc, Len(queryTokens)) \div Len(queryTokens)
(***************************************************************************)
(* UltraVectorDB (src/src/core/UltraVectorDB.ts 54-153).                   *)
(***************************************************************************)
RECURSIVE bitXor(_, _)
bitXor(a, b) ==
  IF a = 0 /\ b = 0 THEN 0
  ELSE (((a % 2) + (b % 2)) % 2) + 2 * bitXor(a \div 2, b \div 2)

RECURSIVE bitAnd(_, _)
bitAnd(a, b) ==
  IF a = 0 \/ b = 0 THEN 0
  ELSE ((a % 2) * (b % 2)) + 2 * bitAnd(a \div 2, b \div 2)

\* The operands of ^ and & are converted to signed integers of the word width
\* (ToInt32) and the result is such an integer; a Uint32Array element is in
\* 0..WordSize-1.
WordSize == 2 ^ WordBits
toUint32(x) == x % WordSize
toInt32(x) == IF toUint32(x) >= WordSize \div 2 THEN toUint32(x) - WordSize ELSE toUint32(x)
xorInt32(a, b) == toInt32(bitXor(toUint32(a), toUint32(b)))
andInt32(a, b) == toInt32(bitAnd(toUint32(a), toUint32(b)))

\* the bug of a loop `while (x > 0)`, which a word with the top bit set never enters
RECURSIVE clearLowestBitsWhilePositive(_, _)
clearLowestBitsWhilePositive(x, count) ==
  IF x <= 0 THEN count
  ELSE clearLowestBitsWhilePositive(andInt32(x, x - 1), count + 1)

\* lines 138-141: while (x) { x &= x - 1; count++ }
RECURSIVE clearLowestBits(_, _)
clearLowestBits(x, count) ==
  IF x = 0 THEN count ELSE clearLowestBits(andInt32(x, x - 1), count + 1)

\* lines 133-143, a and b being the words a[0] and b[0]
nanoHammingDistance(a, b) == clearLowestBits(xorInt32(a, b), 0)

\* Map.get, Map.has and Map.set on the store's entries
storeIds == {dataStore[i].id : i \in 1..Len(dataStore)}
storeGet(store, id) == store[CHOOSE i \in 1..Len(store) : store[i].id = id]
storeHas(store, id) == \E i \in 1..Len(store) : store[i].id = id
\* the bug of a store that appends an entry for every call
storeSetAppend(store, chunk) == Append(store, chunk)

storeSet(store, chunk) ==
  IF storeHas(store, chunk.id)
  THEN [i \in 1..Len(store) |-> IF store[i].id = chunk.id THEN chunk ELSE store[i]]
  ELSE Append(store, chunk)

\* line 86: getBinaryCandidates(queryNano, 500)
stage1Limit == 500
\* line 90: this.hnsw.search(queryMedium, 50, 0)
stage2Ef == 50

\* the bug of a Stage 1 that keeps the nearest chunk alone
getBinaryCandidatesNearest(store, queryNano, limit) ==
  IF Len(store) = 0 THEN << >>
  ELSE LET scored == [i \in 1..Len(store) |->
                        [id |-> store[i].id,
                         distance |-> nanoHammingDistance(queryNano, store[i].matryoshka.nano)]]
       IN idsOf(SubSeq(SortByDistance(scored), 1, 1))

\* getBinaryCandidates (120-131): sort by Hamming distance, slice(0, limit)
getBinaryCandidates(store, queryNano, limit) ==
  IF Len(store) = 0 THEN << >>
  ELSE LET scored == [i \in 1..Len(store) |->
                        [id |-> store[i].id,
                         distance |-> nanoHammingDistance(queryNano, store[i].matryoshka.nano)]]
       IN idsOf(SubSeq(SortByDistance(scored), 1, Min(limit, Len(scored))))

\* the bug of merging by concatenation alone
dedupeNone(ids, n) == SubSeq(ids, 1, n)

\* line 93: [...new Set([...binaryCandidates, ...hnswCandidates])]
RECURSIVE dedupe(_, _)
dedupe(ids, n) == IF n = 0 THEN << >> ELSE SetAdd(dedupe(ids, n - 1), ids[n])

\* lines 101-114: the result pushed for one chunk; score is 10 times the combined
\* score (colbert * 0.6 + full * 0.4)
scoreChunk(query, qMat, chunk) ==
  LET colbert == colbertScore(query, chunk.colbert)
      fullScore == cosineSimilarity(qMat.full, chunk.matryoshka.full)
  IN [chunk |-> chunk,
      score |-> colbert * 6 + fullScore * 4,
      breakdown |-> [binary |-> nanoHammingDistance(qMat.nano, chunk.matryoshka.nano),
                     hnsw |-> 0, colbert |-> colbert, final |-> fullScore]]

\* lines 97-115: the loop over the merged candidates
RECURSIVE scoreCandidates(_, _, _, _, _)
scoreCandidates(store, query, qMat, ids, n) ==
  IF n = 0 THEN << >>
  ELSE LET before == scoreCandidates(store, query, qMat, ids, n - 1) IN
       IF storeHas(store, ids[n])
       THEN Append(before, scoreChunk(query, qMat, storeGet(store, ids[n])))
       ELSE before

\* the bug of a sort that is not stable: a result moves ahead of its equals
RECURSIVE InsertByScoreTiesFirst(_, _)
InsertByScoreTiesFirst(sorted, x) ==
  IF sorted = << >> THEN <<x>>
  ELSE IF x.score >= sorted[Len(sorted)].score
       THEN Append(InsertByScoreTiesFirst(SubSeq(sorted, 1, Len(sorted) - 1), x),
                   sorted[Len(sorted)])
       ELSE Append(sorted, x)

\* line 117: sort((a, b) => b.score - a.score), stable
RECURSIVE InsertByScore(_, _)
InsertByScore(sorted, x) ==
  IF sorted = << >> THEN <<x>>
  ELSE IF x.score > sorted[Len(sorted)].score
       THEN Append(InsertByScore(SubSeq(sorted, 1, Len(sorted) - 1), x),
                   sorted[Len(sorted)])
       ELSE Append(sorted, x)

RECURSIVE SortByScorePrefix(_, _)
SortByScorePrefix(s, n) ==
  IF n = 0 THEN << >> ELSE InsertByScore(SortByScorePrefix(s, n - 1), s[n])

\* the bug of truncating without sorting
rankResultsUnsorted(results, limit) == Take(results, limit)

rankResults(results, limit) == Take(SortByScorePrefix(results, Len(results)), limit)

\* the bug of testing the query without trim()
rejectsQueryUntrimmed(store, query) == query = << >> \/ Len(store) = 0

\* line 78: if (!query.trim() || this.dataStore.size === 0) return []
rejectsQuery(store, query) == trim(query) = << >> \/ Len(store) = 0

\* ultraSearch(query, limit): [results, logged], logged being the candidate
\* counts of the two console.log lines (none when the call returns at line 78)
ultraSearch(store, h, query, limit) ==
  IF rejectsQuery(store, query) THEN [results |-> << >>, logged |-> << >>]
  ELSE LET qMat == generateAll(query).matryoshka
           binaryCandidates == getBinaryCandidates(store, qMat.nano, stage1Limit)
           hnswCandidates ==
             search(h.graph, h.maxLevel, h.entryPointId, qMat.medium, stage2Ef, 0).ids
           merged == binaryCandidates \o hnswCandidates
           finalCandidates == dedupe(merged, Len(merged))
           results == scoreCandidates(store, query, qMat, finalCandidates,
                                      Len(finalCandidates))
       IN [results |-> rankResults(results, limit),
           logged |-> <<Len(binaryCandidates), Len(hnswCandidates)>>]

getStats(store) == [chunks |-> Len(store)]

hnsw == [graph |-> graph, maxLevel |-> maxLevel, entryPointId |-> entryPointId]
\* new HNSWGraph(M, efConstruction): lines 13-15
emptyGraph == [graph |-> << >>, maxLevel |-> 0, entryPointId |-> NULL]

\* the bug of replacing the index and keeping the store
clearIndexOnly(store, h) == [dataStore |-> store, hnsw |-> emptyGraph]

\* clear (149-152): the store and the index after the call
\* the bug of a clear() that empties the store and keeps the index
clearStoreOnly(store, h) == [dataStore |-> << >>, hnsw |-> h]

clear(store, h) == [dataStore |-> << >>, hnsw |-> emptyGraph]
\* the bug of an await between lines 73 and 74: the calls issued next run with
\* the chunk stored and its node not inserted
addChunkSuspended(store, h, id, content, level) ==
  LET gen == generateAll(content)
      fullChunk == [id |-> id, content |-> content,
                    matryoshka |-> gen.matryoshka, colbert |-> gen.colbert]
  IN [dataStore |-> storeSet(store, fullChunk), hnsw |-> h]

\* addChunk (68-75): the store and the index after the call; the body has no
\* await, so it runs to its end when the method is called
addChunk(store, h, id, content, level) ==
  LET gen == generateAll(content)
      fullChunk == [id |-> id, content |-> content,
                    matryoshka |-> gen.matryoshka, colbert |-> gen.colbert]
  IN [dataStore |-> storeSet(store, fullChunk),
      hnsw |-> insert(h, id, gen.matryoshka.medium, level)]

(***************************************************************************)
(* The state machine.  Init is the object after `new UltraVectorDB(M,      *)
(* efConstruction)`.  A call runs when no result is pending and leaves its *)
(* settled result in ret; Await is the caller taking it.                   *)
(***************************************************************************)
Init ==
  /\ dataStore = << >>
  /\ graph = emptyGraph.graph
  /\ maxLevel = emptyGraph.maxLevel
  /\ entryPointId = emptyGraph.entryPointId
  /\ ret = Idle
  /\ adds = 0
  /\ clears = 0

\* addChunk (68-75); level is the value getRandomLevel() returns inside insert
AddChunk(id, content, level) ==
  /\ ret = Idle
  /\ adds < MaxAdds
  /\ adds' = adds + 1
  /\ clears' = 0
  /\ LET after == addChunk(dataStore, hnsw, id, content, level)
     IN /\ dataStore' = after.dataStore
        /\ graph' = after.hnsw.graph
        /\ maxLevel' = after.hnsw.maxLevel
        /\ entryPointId' = after.hnsw.entryPointId
  /\ ret' = [op |-> "addChunk", id |-> id, content |-> content, level |-> level]

\* ultraSearch (77-118); its one call into the index is hnsw.search at line 90
UltraSearch(query, limit) ==
  /\ ret = Idle
  /\ LET out == ultraSearch(dataStore, hnsw, query, limit)
         after == IF rejectsQuery(dataStore, query) THEN hnsw
                  ELSE searchEffect(hnsw, generateAll(query).matryoshka.medium, stage2Ef, 0)
     IN /\ ret' = [op |-> "ultraSearch", query |-> query, limit |-> limit,
                   results |-> out.results, logged |-> out.logged]
        /\ graph' = after.graph
        /\ maxLevel' = after.maxLevel
        /\ entryPointId' = after.entryPointId
  /\ UNCHANGED <<dataStore, adds, clears>>

\* HNSWGraph.search (88-101) called on the index
Search(queryVector, ef, targetLevel) ==
  /\ ret = Idle
  /\ LET out == search(graph, maxLevel, entryPointId, queryVector, ef, targetLevel)
         after == searchEffect(hnsw, queryVector, ef, targetLevel)
     IN /\ ret' = [op |-> "search", query |-> queryVector, ef |-> ef,
                   targetLevel |-> targetLevel, threw |-> out.threw, ids |-> out.ids]
        /\ graph' = after.graph
        /\ maxLevel' = after.maxLevel
        /\ entryPointId' = after.entryPointId
  /\ UNCHANGED <<dataStore, adds, clears>>

\* getStats (145-147)
GetStats ==
  /\ ret = Idle
  /\ ret' = [op |-> "getStats", chunks |-> getStats(dataStore).chunks]
  /\ UNCHANGED <<dataStore, graph, maxLevel, entryPointId, adds, clears>>

\* clear (149-152)
Clear ==
  /\ ret = Idle
  /\ clears < MaxClears
  /\ LET after == clear(dataStore, hnsw)
     IN /\ dataStore' = after.dataStore
        /\ graph' = after.hnsw.graph
        /\ maxLevel' = after.hnsw.maxLevel
        /\ entryPointId' = after.hnsw.entryPointId
  /\ ret' = [op |-> "clear"]
  /\ adds' = 0
  /\ clears' = clears + 1

Await ==
  /\ ret # Idle
  /\ ret' = Idle
  /\ UNCHANGED <<dataStore, graph, maxLevel, entryPointId, adds, clears>>

AddAnyChunk == \E id \in Ids, content \in Contents, level \in 0..MaxLevel :
                 AddChunk(id, content, level)
AddFreshChunk == \E id \in Ids \ storeIds, content \in Contents, level \in 0..MaxLevel :
                   AddChunk(id, content, level)
AnyUltraSearch == \E query \in Texts, limit \in 1..MaxLimit : UltraSearch(query, limit)
AnySearch == \E queryVector \in QueryVectors, ef \in 0..MaxEf, targetLevel \in 0..MaxLevel :
               Search(queryVector, ef, targetLevel)

Next == AddAnyChunk \/ AnyUltraSearch \/ AnySearch \/ GetStats \/ Clear \/ Await

Spec == Init /\ [][Next]_vars

\* the same machine when every addChunk names an id that is not in the store
NextDistinct == AddFreshChunk \/ AnyUltraSearch \/ AnySearch \/ GetStats \/ Clear \/ Await

SpecDistinct == Init /\ [][NextDistinct]_vars

(***************************************************************************)
(* Calls that are not awaited.  An async method without an await runs its  *)
(* body when it is called and settles its promise later: ret is here the   *)
(* sequence of the promises that were not awaited yet, each with what its  *)
(* call returned, at most MaxPending of them.  An ultraSearch also records *)
(* what its body read of the store and the index.                          *)
(***************************************************************************)
observedBy(store, h) ==
  [stored |-> {store[i].id : i \in 1..Len(store)},
   nodes |-> DOMAIN h.graph,
   entry |-> h.entryPointId]

InitUnawaited ==
  /\ dataStore = << >>
  /\ graph = emptyGraph.graph
  /\ maxLevel = emptyGraph.maxLevel
  /\ entryPointId = emptyGraph.entryPointId
  /\ ret = << >>
  /\ adds = 0
  /\ clears = 0

CallAddChunk(id, content, level) ==
  /\ Len(ret) < MaxPending
  /\ adds < MaxAdds
  /\ adds' = adds + 1
  /\ LET after == addChunk(dataStore, hnsw, id, content, level)
     IN /\ dataStore' = after.dataStore
        /\ graph' = after.hnsw.graph
        /\ maxLevel' = after.hnsw.maxLevel
        /\ entryPointId' = after.hnsw.entryPointId
  /\ ret' = Append(ret, [op |-> "addChunk", id |-> id])
  /\ UNCHANGED clears

CallUltraSearch(query, limit) ==
  /\ Len(ret) < MaxPending
  /\ LET out == ultraSearch(dataStore, hnsw, query, limit)
         after == IF rejectsQuery(dataStore, query) THEN hnsw
                  ELSE searchEffect(hnsw, generateAll(query).matryoshka.medium, stage2Ef, 0)
     IN /\ ret' = Append(ret, [op |-> "ultraSearch", query |-> query, limit |-> limit,
                               results |-> out.results,
                               observed |-> observedBy(dataStore, hnsw)])
        /\ graph' = after.graph
        /\ maxLevel' = after.maxLevel
        /\ entryPointId' = after.entryPointId
  /\ UNCHANGED <<dataStore, adds, clears>>

AwaitAll ==
  /\ ret # << >>
  /\ ret' = << >>
  /\ UNCHANGED <<dataStore, graph, maxLevel, entryPointId, adds, clears>>

AnyCallAddChunk == \E id \in Ids, content \in Contents, level \in 0..MaxLevel :
                     CallAddChunk(id, content, level)
AnyCallUltraSearch == \E query \in Contents : CallUltraSearch(query, MaxLimit)

NextUnawaited == AnyCallAddChunk \/ AnyCallUltraSearch \/ AwaitAll

SpecUnawaited == InitUnawaited /\ [][NextUnawaited]_vars

(***************************************************************************)
(* nanoHammingDistance as a function of its words: the initial states draw *)
(* three words and the one action applies the method to each pair.         *)
(***************************************************************************)
Words == 0..(WordSize - 1)

InitHamming ==
  /\ dataStore = << >>
  /\ graph = emptyGraph.graph
  /\ maxLevel = emptyGraph.maxLevel
  /\ entryPointId = emptyGraph.entryPointId
  /\ ret \in {[op |-> "words", a |-> a, b |-> b, c |-> c] : a, b, c \in Words}
  /\ adds = 0
  /\ clears = 0

NanoHammingDistance ==
  /\ ret.op = "words"
  /\ ret' = [op |-> "nanoHammingDistance", a |-> ret.a, b |-> ret.b, c |-> ret.c,
             ab |-> nanoHammingDistance(ret.a, ret.b),
             ba |-> nanoHammingDistance(ret.b, ret.a),
             bc |-> nanoHammingDistance(ret.b, ret.c),
             ac |-> nanoHammingDistance(ret.a, ret.c)]
  /\ UNCHANGED <<dataStore, graph, maxLevel, entryPointId, adds, clears>>

SpecHamming == InitHamming /\ [][NanoHammingDistance]_vars
(***************************************************************************)
(* Properties.                                                             *)
(***************************************************************************)
nodeIds == DOMAIN graph
IsBlank(text) == \A i \in 1..Len(text) : text[i] = " "
NoDuplicates(s) == \A i, j \in 1..Len(s) : s[i] = s[j] => i = j

\* C1: after any sequence of inserts with distinct ids, every node's neighbor
\* set at every layer holds at most M ids.
C1_DegreeAtMostM ==
  \A id \in nodeIds : \A l \in DOMAIN graph[id].neighbors :
    Len(graph[id].neighbors[l]) <= M /\ NoDuplicates(graph[id].neighbors[l])

\* C1 witness: the insert of ret.id linked it to a node n that was full, and
\* trimming cut n's set back to M ids (the new id is not among them).
C1_TrimHappened ==
  /\ ret.op = "addChunk"
  /\ \E n \in nodeIds \ {ret.id} : \E l \in DOMAIN graph[ret.id].neighbors :
       /\ n \in Range(graph[ret.id].neighbors[l])
       /\ l \in DOMAIN graph[n].neighbors
       /\ Len(graph[n].neighbors[l]) = M
       /\ ret.id \notin Range(graph[n].neighbors[l])

\* C2: after any sequence of inserts with distinct ids, the layer keys of every
\* node's neighbor map are exactly 0..level of that node.
C2_LayerKeysAreLevels ==
  \A id \in nodeIds : DOMAIN graph[id].neighbors = 0..graph[id].level

\* C2 witness: the insert of ret.id linked it at layer 1 while a node of level 0
\* is in the graph.
C2_LinkedAboveBottom ==
  /\ ret.op = "addChunk"
  /\ graph[ret.id].level >= 1
  /\ graph[ret.id].neighbors[1] # << >>
  /\ \E z \in nodeIds : graph[z].level = 0

\* C3: after any sequence of inserts with distinct ids, maxLevel is the maximum
\* level over the nodes of the graph.
C3_MaxLevelIsMaximum ==
  nodeIds # {} =>
    /\ \A id \in nodeIds : graph[id].level <= maxLevel
    /\ \E id \in nodeIds : graph[id].level = maxLevel

\* C3 witness: the insert of ret.id raised maxLevel above every older node.
C3_MaxLevelRaised ==
  /\ ret.op = "addChunk"
  /\ Cardinality(nodeIds) >= 2
  /\ graph[ret.id].level = maxLevel
  /\ \A id \in nodeIds \ {ret.id} : graph[id].level < maxLevel

\* C4: whenever the graph is non-empty, entryPointId names a node of the graph
\* whose level equals maxLevel, after any sequence of addChunk calls, also when an
\* id is ingested again.  (Violated: the claim as stated.)
C4_EntryPointIsTop ==
  nodeIds # {} =>
    /\ entryPointId \in nodeIds
    /\ graph[entryPointId].level = maxLevel

\* C5: HNSWGraph.search returns only ids that are keys of the node mapping and
\* returns no id twice.
C5_SearchContained ==
  (ret.op = "search" /\ ~ret.threw) =>
    /\ Range(ret.ids) \subseteq nodeIds
    /\ NoDuplicates(ret.ids)

\* C5 witness: a search returned several ids.
C5_SearchFoundSeveral == ret.op = "search" /\ ~ret.threw /\ Len(ret.ids) >= 2

\* C6: for every ef >= 0, HNSWGraph.search(queryVector, ef, targetLevel) returns
\* a list of length at most ef.  (Violated: the claim as stated.)
C6_LengthAtMostEf ==
  ret.op = "search" => (~ret.threw /\ Len(ret.ids) <= ret.ef)

\* C7: ultraSearch(query, limit) returns at most limit results, each result's
\* combined score at least the score of the result after it.
C7_LimitedAndSorted ==
  ret.op = "ultraSearch" =>
    /\ Len(ret.results) <= ret.limit
    /\ \A i \in 1..(Len(ret.results) - 1) :
         ret.results[i].score >= ret.results[i + 1].score

\* C7 witness: a search over a store larger than limit that returned limit
\* results of different scores.
C7_TruncatedRanking ==
  /\ ret.op = "ultraSearch"
  /\ Len(dataStore) > ret.limit
  /\ Len(ret.results) = ret.limit
  /\ Len(ret.results) >= 2
  /\ ret.results[1].score > ret.results[2].score

\* C8: ultraSearch returns an empty list when the query is empty or
\* whitespace-only or the store is empty, and leaves the store and the graph
\* unchanged.
C8_RejectedSearchIsEmpty ==
  [][(ret.op = "idle" /\ ret'.op = "ultraSearch"
        /\ (IsBlank(ret'.query) \/ Len(dataStore) = 0))
     => (ret'.results = << >>
           /\ UNCHANGED <<dataStore, graph, maxLevel, entryPointId>>)]_vars

\* C8 witness: a whitespace-only query on a non-empty store returned nothing.
C8_BlankQueryOnStore ==
  /\ ret.op = "ultraSearch"
  /\ ret.query = <<" ">>
  /\ Len(dataStore) > 0
  /\ ret.results = << >>

\* C9: after clear(), once or several times in a row, getStats().chunks is 0 and
\* every ultraSearch issued before the next addChunk returns an empty list.
C9_EmptyAfterClear ==
  clears > 0 =>
    /\ getStats(dataStore).chunks = 0
    /\ ret.op = "getStats" => ret.chunks = 0
    /\ ret.op = "ultraSearch" => ret.results = << >>

\* C9 witness: a non-blank query answered with nothing after two clear() calls
\* in a row.
C9_SearchAfterClears ==
  /\ clears >= 2
  /\ ret.op = "ultraSearch"
  /\ ~IsBlank(ret.query)
  /\ ret.results = << >>

\* C10: for a non-blank query and a store of at most 500 chunks, ultraSearch
\* returns exactly min(limit, store size) results, each a stored chunk with its
\* combined score, no chunk twice, and no chunk left out scores higher than a
\* returned one, whatever the graph index holds.
C10_RecallFloor ==
  (ret.op = "ultraSearch" /\ ~IsBlank(ret.query) /\ Len(dataStore) \in 1..500) =>
    LET qMat == generateAll(ret.query).matryoshka
        returned == [i \in 1..Len(ret.results) |-> ret.results[i].chunk.id]
    IN /\ Len(ret.results) = Min(ret.limit, Len(dataStore))
       /\ NoDuplicates(returned)
       /\ \A i \in 1..Len(ret.results) :
            /\ ret.results[i].chunk \in Range(dataStore)
            /\ ret.results[i].score = scoreChunk(ret.query, qMat, ret.results[i].chunk).score
            /\ \A j \in 1..Len(dataStore) :
                 dataStore[j].id \notin Range(returned)
                   => ret.results[i].score >= scoreChunk(ret.query, qMat, dataStore[j]).score

\* C10 witness: the graph search (Stage 2) found fewer chunks than ultraSearch
\* returned.
C10_GraphMissedChunks ==
  /\ ret.op = "ultraSearch"
  /\ ret.logged # << >>
  /\ ret.logged[2] < Len(ret.results)

\* the medium vector ultraSearch hands to Stage 2 for a query (lines 80-82)
queryMedium(query) == generateAll(query).matryoshka.medium

\* C11: when N chunks with distinct ids are stored, N <= 50 and N - 1 <= M, the
\* Stage-2 call hnsw.search(queryMedium, 50, 0) of an ultraSearch returns all N
\* ids, whatever levels were drawn.  (Violated: the claim as stated.)
C11_SmallCorpusFound ==
  (ret.op = "ultraSearch" /\ ~IsBlank(ret.query)
     /\ Len(dataStore) \in 1..50 /\ Len(dataStore) - 1 <= M) =>
    /\ ret.logged[2] = Len(dataStore)
    /\ Range(search(graph, maxLevel, entryPointId, queryMedium(ret.query), 50, 0).ids)
         = storeIds

\* C12: addChunk with an id already in the store replaces the chunk stored under
\* that id and leaves the chunk count as it was (a fresh id adds one, clear()
\* resets it to 0), and no other node loses that id from a neighbor set.
C12_ReingestReplaces ==
  [][/\ (ret.op = "idle" /\ ret'.op = "addChunk") =>
          /\ getStats(dataStore').chunks
               = getStats(dataStore).chunks + (IF ret'.id \in storeIds THEN 0 ELSE 1)
          /\ \E i \in 1..Len(dataStore') :
               /\ dataStore'[i].id = ret'.id
               /\ dataStore'[i].content = ret'.content
               /\ \A j \in 1..Len(dataStore') : dataStore'[j].id = ret'.id => j = i
          /\ \A j \in 1..Len(dataStore) :
               dataStore[j].id # ret'.id => dataStore'[j] = dataStore[j]
          /\ \A n \in DOMAIN graph \ {ret'.id} : \A l \in DOMAIN graph[n].neighbors :
               ret'.id \in Range(graph[n].neighbors[l])
                 => (l \in DOMAIN graph'[n].neighbors
                       /\ ret'.id \in Range(graph'[n].neighbors[l]))
     /\ (ret.op = "idle" /\ ret'.op = "clear") => getStats(dataStore').chunks = 0
    ]_vars

\* C12 witness: of three addChunk calls the last ingested the first id again
\* while the other node holds that id as a neighbor.
C12_ReingestedLinkedId ==
  /\ ret.op = "addChunk"
  /\ adds = 3
  /\ Len(dataStore) = 2
  /\ dataStore[1].id = ret.id
  /\ dataStore[1].content = ret.content
  /\ \E n \in nodeIds \ {ret.id} : ret.id \in Range(graph[n].neighbors[0])

\* the number of positions where the words a and b differ
RECURSIVE DifferingBits(_, _, _)
DifferingBits(a, b, n) ==
  IF n = 0 THEN 0
  ELSE DifferingBits(a \div 2, b \div 2, n - 1) + (IF a % 2 = b % 2 THEN 0 ELSE 1)

\* C13: nanoHammingDistance is a metric on the nano words: symmetric, 0 exactly
\* for equal words, the number of differing bits (also when the top bit is set),
\* and d(a,c) <= d(a,b) + d(b,c).
C13_HammingIsMetric ==
  ret.op = "nanoHammingDistance" =>
    /\ ret.ab = ret.ba
    /\ (ret.ab = 0) <=> (ret.a = ret.b)
    /\ ret.ab = DifferingBits(ret.a, ret.b, WordBits)
    /\ ret.bc = DifferingBits(ret.b, ret.c, WordBits)
    /\ ret.ac = DifferingBits(ret.a, ret.c, WordBits)
    /\ ret.ac <= ret.ab + ret.bc

\* C13 witness: two words that differ in the top bit and in another bit.
C13_TopBitDiffers ==
  /\ ret.op = "nanoHammingDistance"
  /\ ret.a >= WordSize \div 2
  /\ ret.b < WordSize \div 2
  /\ ret.ab >= 2
  /\ ret.ac = ret.ab + ret.bc

\* the position of an id in the store's insertion order
storeIndex(id) == CHOOSE i \in 1..Len(dataStore) : dataStore[i].id = id
resultIds(results) == [i \in 1..Len(results) |-> results[i].chunk.id]
IndexOf(s, x) == CHOOSE i \in 1..Len(s) : s[i] = x

C15_SearchIsReadOnly ==
  [][(ret.op = "idle" /\ ret'.op \in {"search", "ultraSearch"})
       => (graph' = graph /\ maxLevel' = maxLevel /\ entryPointId' = entryPointId
             /\ dataStore' = dataStore)]_vars

\* C15 witness: a search at a layer the entry point has no neighbor set for.
C15_SearchedMissingLayer ==
  /\ ret.op = "search"
  /\ ~ret.threw
  /\ ret.ids # << >>
  /\ entryPointId \in nodeIds
  /\ ret.targetLevel \notin DOMAIN graph[entryPointId].neighbors

\* C16: the list ultraSearch returns never holds the same chunk id twice, also
\* when Stage 1 and Stage 2 both produce an id, and every returned chunk is the
\* chunk stored under its id.
C16_EachIdScoredOnce ==
  ret.op = "ultraSearch" =>
    /\ NoDuplicates(resultIds(ret.results))
    /\ \A i \in 1..Len(ret.results) :
         /\ storeHas(dataStore, ret.results[i].chunk.id)
         /\ ret.results[i].chunk = storeGet(dataStore, ret.results[i].chunk.id)

\* C16 witness: after an id was ingested again, both stages produced several
\* ids and two chunks were returned.
C16_BothStagesProduced ==
  /\ ret.op = "ultraSearch"
  /\ adds > Len(dataStore)
  /\ ret.logged # << >>
  /\ ret.logged[1] >= 2
  /\ ret.logged[2] >= 2
  /\ Len(ret.results) = 2

\* the distance trimNeighbors is meant to rank by: between two nodes' vectors
nodeDistance(n, k) == distanceTo(graph[n].vector, graph[k].vector)

\* C17: inserting a fresh id into a non-empty graph (M >= 1, efConstruction >= 1)
\* leaves the new node with at least one neighbor at layer 0, for every drawn
\* level.  (Violated: the claim as stated.)
C17_NewNodeIsLinked ==
  (ret.op = "addChunk" /\ Cardinality(nodeIds) >= 2 /\ M >= 1 /\ efConstruction >= 1)
    => graph[ret.id].neighbors[0] # << >>

\* C18: when insert links the new node X to a neighbor n at layer l and n then
\* holds more than M ids, the ids n keeps are the M nearest to n among its
\* previous neighbors and X, X ranked by its distance to n: when X was dropped,
\* no kept id is farther from n than X is.  (Violated: the claim as stated.)
C18_TrimKeepsNearest ==
  ret.op = "addChunk" =>
    \A l \in DOMAIN graph[ret.id].neighbors :
      \A n \in Range(graph[ret.id].neighbors[l]) \ {ret.id} :
        (l \in DOMAIN graph[n].neighbors /\ ret.id \notin Range(graph[n].neighbors[l]))
          => \A k \in Range(graph[n].neighbors[l]) :
               nodeDistance(n, k) <= nodeDistance(n, ret.id)

\* C19: for every neighbor n selected for the new node X at layer l, after the
\* insert n is in X's layer-l set (the selected ids are that set), and X is in
\* n's layer-l set whenever n had fewer than M neighbors at layer l before.
C19_LinksAreBidirectional ==
  [][(ret.op = "idle" /\ ret'.op = "addChunk") =>
       \A l \in DOMAIN graph'[ret'.id].neighbors :
         \A n \in Range(graph'[ret'.id].neighbors[l]) :
           /\ n \in DOMAIN graph
           /\ (IF l \in DOMAIN graph[n].neighbors
                THEN Len(graph[n].neighbors[l]) < M ELSE TRUE)
                => (l \in DOMAIN graph'[n].neighbors
                      /\ ret'.id \in Range(graph'[n].neighbors[l]))]_vars

\* C19 witness: the third node of the graph and a node that had no neighbor
\* hold each other at layer 0.
C19_LinkedBothWays ==
  /\ ret.op = "addChunk"
  /\ Cardinality(nodeIds) = 3
  /\ \E n \in nodeIds \ {ret.id} :
       /\ n \in Range(graph[ret.id].neighbors[0])
       /\ graph[n].neighbors[0] = <<ret.id>>

\* C20: searchLayer does not stop while its candidate list holds a candidate
\* that was not expanded and has unvisited neighbors.  When fewer than ef ids
\* are returned the list was never cut, so every visited node of the graph is
\* returned and every expanded node's neighbors are visited: the claim makes
\* each returned id's neighbors at the layer returned ids too.  (Violated:
\* the claim as stated.)
C20_ExpandsEveryCandidate ==
  (ret.op = "search" /\ ~ret.threw /\ Len(ret.ids) < ret.ef) =>
    \A i \in 1..Len(ret.ids) :
      \A nb \in Range(neighborsAt(graph[ret.ids[i]], ret.targetLevel)) :
        nb \in nodeIds => nb \in Range(ret.ids)

\* the vectors the program searches the graph with
searchVectors == QueryVectors \cup {graph[id].vector : id \in nodeIds}

\* C21: searchLayer terminates on every reachable graph (cyclic links
\* included), for every layer, entry id and ef >= 1: every round but the last
\* visits a new node, so there are at most as many rounds as nodes.
C21_SearchLayerTerminates ==
  ret.op = "addChunk" =>
    \A entry \in nodeIds, layer \in 0..MaxLevel, ef \in 1..MaxEf, q \in searchVectors :
      LET out == searchLayer(graph, q, ef, layer, entry)
      IN /\ ~out.diverged
         /\ ~out.threw
         /\ out.iterations <= Cardinality(nodeIds)

\* C21 witness: a graph with a node that is its own neighbor, and a search of
\* it that took as many rounds as the graph has nodes.
C21_CyclicGraphSearched ==
  /\ ret.op = "addChunk"
  /\ Cardinality(nodeIds) >= 2
  /\ \E id \in nodeIds : id \in Range(graph[id].neighbors[0])
  /\ \E entry \in nodeIds, q \in searchVectors :
       searchLayer(graph, q, MaxEf, 0, entry).iterations = Cardinality(nodeIds)

\* C22: inserting into a non-empty graph a node whose level is greater than
\* maxLevel makes it the entry point and sets maxLevel to its level; a level
\* less than or equal to maxLevel leaves entryPointId and maxLevel unchanged.
C22_EntryPointUpdateRule ==
  [][(ret.op = "idle" /\ ret'.op = "addChunk" /\ nodeIds # {}) =>
       IF ret'.level > maxLevel
       THEN entryPointId' = ret'.id /\ maxLevel' = ret'.level
       ELSE entryPointId' = entryPointId /\ maxLevel' = maxLevel]_vars

\* C22 witness: another id was inserted at the level of the entry point, above
\* layer 0, and the entry point stayed.
C22_TieKeepsEntryPoint ==
  /\ ret.op = "addChunk"
  /\ ret.level = maxLevel
  /\ ret.level >= 1
  /\ entryPointId # ret.id
  /\ entryPointId \in nodeIds
  /\ graph[entryPointId].level = maxLevel

\* C23: the level of a graph node never changes under a later addChunk, of
\* the same or of another id, or under a search.  (Violated: the claim as
\* stated.)
C23_LevelIsImmutable ==
  [][\A id \in DOMAIN graph \cap DOMAIN graph' :
       graph'[id].level = graph[id].level]_vars

\* C24: the vector ColBERTEngine.score builds for a token of the query equals
\* the vector generateAll stored for the same token text as a document token.
\* (Violated: the claim as stated.)
C24_SameTokenRule ==
  ret.op = "ultraSearch" =>
    \A k \in 1..Len(dataStore) : \A i \in 1..Len(dataStore[k].colbert.tokens) :
      dataStore[k].colbert.tokens[i] \in Range(splitTokens(ret.query))
        => makeQueryTokenEmbedding(dataStore[k].colbert.tokens[i])
             = dataStore[k].colbert.embeddings[i]

\* the maximum, over the document tokens 1..di, of similarity times importance
RECURSIVE TrueMaxUpTo(_, _, _)
TrueMaxUpTo(qEmb, doc, di) ==
  LET sim == (cosineSimilarity(qEmb, doc.embeddings[di]) * doc.importance[di]) \div Scale
  IN IF di = 1 THEN sim
     ELSE IF sim > TrueMaxUpTo(qEmb, doc, di - 1) THEN sim
          ELSE TrueMaxUpTo(qEmb, doc, di - 1)

RECURSIVE SumOfMaxima(_, _, _)
SumOfMaxima(queryTokens, doc, qi) ==
  IF qi = 0 THEN 0
  ELSE SumOfMaxima(queryTokens, doc, qi - 1)
       + TrueMaxUpTo(makeQueryTokenEmbedding(queryTokens[qi]), doc, Len(doc.embeddings))

MeanOfMaxima(query, doc) ==
  IF Len(splitTokens(query)) = 0 \/ Len(doc.tokens) = 0 THEN 0
  ELSE SumOfMaxima(splitTokens(query), doc, Len(splitTokens(query)))
         \div Len(splitTokens(query))

\* C25: the ColBERT score of a returned chunk is 0 when the query or the
\* document has no tokens and otherwise the mean over the query tokens of the
\* maximum over the document tokens of similarity times importance, the true
\* maximum also when every product is negative.  (Violated: the claim as stated.)
C25_MeanOfTrueMaxima ==
  ret.op = "ultraSearch" =>
    \A i \in 1..Len(ret.results) :
      ret.results[i].breakdown.colbert = MeanOfMaxima(ret.query, ret.results[i].chunk.colbert)

\* the node mapping without the node d: the ids other nodes hold for d dangle
withoutNode(d) == [id \in nodeIds \ {d} |-> graph[id]]

\* C26: for ef >= 1, a search with targetLevel above maxLevel returns just the
\* entry point (a node without a neighbor set at the layer is expanded as
\* having no neighbors), and on a node mapping that lacks a node other nodes
\* refer to the search returns without raising and without that id.
C26_TraversalTolerates ==
  (ret.op = "search" /\ ret.ef >= 1 /\ nodeIds # {}) =>
    /\ ret.targetLevel > maxLevel => (~ret.threw /\ ret.ids = <<entryPointId>>)
    /\ \A d \in nodeIds :
         LET out == search(withoutNode(d), maxLevel, entryPointId, ret.query, ret.ef,
                           ret.targetLevel)
         IN /\ ~out.threw
            /\ ~out.diverged
            /\ Range(out.ids) \subseteq nodeIds \ {d}

\* C26 witness: a search above maxLevel on a graph whose entry point has a
\* neighbor at layer 0 returned the entry point alone, and without that
\* neighbor's node the search at layer 0 returns the entry point too.
C26_SearchedAboveTop ==
  /\ ret.op = "search"
  /\ ret.ef >= 2
  /\ ret.targetLevel > maxLevel
  /\ ret.ids = <<entryPointId>>
  /\ \E d \in Range(graph[entryPointId].neighbors[0]) \ {entryPointId} :
       search(withoutNode(d), maxLevel, entryPointId, ret.query, ret.ef, 0).ids
         = <<entryPointId>>

\* C27: addChunk and ultraSearch calls issued without awaiting one another
\* behave as the serial order of the calls: every ultraSearch saw each stored
\* chunk's node committed to the graph and a committed entry point, and the
\* search issued last returned what a search of the present store and index
\* returns.
C27_UnawaitedCallsAreSerial ==
  \A k \in 1..Len(ret) :
    ret[k].op = "ultraSearch" =>
      /\ ret[k].observed.stored = ret[k].observed.nodes
      /\ ret[k].observed.stored # {} => ret[k].observed.entry \in ret[k].observed.nodes
      /\ (\A j \in (k + 1)..Len(ret) : ret[j].op # "addChunk")
           => ret[k].results = ultraSearch(dataStore, hnsw, ret[k].query, ret[k].limit).results

\* C27 witness: an ultraSearch issued right after an addChunk that was not
\* awaited returned the chunk of that addChunk.
C27_SearchSawUnawaitedChunk ==
  /\ Len(ret) = 2
  /\ ret[1].op = "addChunk"
  /\ ret[2].op = "ultraSearch"
  /\ ret[1].id \in Range(resultIds(ret[2].results))

\* C28: the store and the index stay consistent: the node mapping has the ids
\* of the chunk store, each node's vector is the medium vector of the chunk
\* stored under its id, and every id a graph search returns is a stored id.
C28_StoreMatchesIndex ==
  /\ nodeIds = storeIds
  /\ \A id \in nodeIds : graph[id].vector = storeGet(dataStore, id).matryoshka.medium
  /\ (ret.op = "search" /\ ~ret.threw) => Range(ret.ids) \subseteq storeIds

\* C28 witness: the chunk stored first was ingested again while a second chunk
\* is stored.
C28_ReingestedFirstChunk ==
  /\ ret.op = "addChunk"
  /\ adds > Len(dataStore)
  /\ Len(dataStore) = 2
  /\ ret.id = dataStore[1].id
  /\ graph[ret.id].vector = generateAll(ret.content).matryoshka.medium

\* C29: with distinct ids, every id in a neighbor set of any node at any layer
\* is a key of the node mapping, and no node holds its own id in a neighbor
\* set.
C29_NoDanglingOrReflexiveLinks ==
  \A id \in nodeIds : \A l \in DOMAIN graph[id].neighbors :
    /\ Range(graph[id].neighbors[l]) \subseteq nodeIds
    /\ id \notin Range(graph[id].neighbors[l])

\* C29 witness: the third distinct id was inserted above the bottom layer and
\* holds a link there.
C29_ThirdNodeLinkedAbove ==
  /\ ret.op = "addChunk"
  /\ Cardinality(nodeIds) = 3
  /\ ret.level >= 1
  /\ graph[ret.id].neighbors[1] # << >>

\* C30: searchLayer with ef = 1, from any node, at any layer, for any query,
\* returns exactly one node; that node is the nearest to the query among the
\* nodes the search visited, and none of its neighbors at the searched layer
\* is strictly nearer to the query.
C30_GreedyEndsInLocalMinimum ==
  ret.op = "addChunk" =>
    \A entry \in nodeIds, layer \in 0..MaxLevel, q \in searchVectors :
      LET out == searchLayer(graph, q, 1, layer, entry)
          best == out.ids[1]
      IN /\ ~out.threw /\ ~out.diverged
         /\ Len(out.ids) = 1
         /\ entry \in out.visited
         /\ \A v \in out.visited :
              distanceTo(q, graph[v].vector) >= distanceTo(q, graph[best].vector)
         /\ \A v \in Range(neighborsAt(graph[best], layer)) :
              distanceTo(q, graph[v].vector) >= distanceTo(q, graph[best].vector)

\* C30 witness: a descent with ef = 1 over three nodes left its entry point
\* for a strictly nearer node after visiting all three.
C30_DescentMoved ==
  /\ ret.op = "addChunk"
  /\ \E entry \in nodeIds, q \in searchVectors :
       LET out == searchLayer(graph, q, 1, 0, entry)
       IN /\ Cardinality(out.visited) = 3
          /\ out.ids # <<entry>>
          /\ distanceTo(q, graph[out.ids[1]].vector) < distanceTo(q, graph[entry].vector)
====
